---------------------------- MODULE Spec2Model ----------------------------
(***************************************************************************)
(* Model of app3.py, the Rwanda malaria dashboard:                         *)
(*   clean_name        the join-key normaliser                             *)
(*   load_data         read three sources, join, enrich with Year / Month  *)
(*   module level      one load, then the dashboard or the error layout    *)
(*   update_dashboard  filter, aggregate, growth, summary, catch-all       *)
(*                                                                         *)
(* Text is a sequence of one-character strings.  A cell that pandas would  *)
(* hold as NaN / None is a record with null = TRUE.  Numbers that can be   *)
(* fractional, infinite or NaN are records [k, n, d]: k = "num" is the     *)
(* rational n / d, k = "inf" and k = "nan" are the IEEE results numpy      *)
(* gives for x / 0 and 0 / 0.                                              *)
(***************************************************************************)
EXTENDS Integers, Sequences, FiniteSets

VARIABLES
    name,          \* argument handed to clean_name (normaliser runs)
    key,           \* value clean_name returned
    cleaned,       \* TRUE once clean_name has returned
    adm_file,      \* rwa_adm4_2006_NISR_WGS1984_20181002.shp
    csv_file,      \* malaria_cases.csv
    wet_file,      \* Wetlands_and_Swamps_Final.shp
    phase,         \* "import", "loaded", "serving", "responding", "error_view", "crashed"
    loads,         \* number of load_data calls so far
    load_raised,   \* TRUE when load_data left through its except branch
    merged_df,     \* module-level joined case table (or None)
    df_wetlands,   \* module-level wetland table (or None)
    registered,    \* TRUE once update_dashboard is registered as a callback
    ran,           \* TRUE once update_dashboard has executed
    req,           \* inputs of the latest callback request
    exc,           \* exception raised inside the latest update_dashboard
    escaped,       \* TRUE when an exception left update_dashboard
    out,           \* value the latest update_dashboard returned
    failed_before  \* TRUE when an earlier update_dashboard call raised

vars == <<name, key, cleaned, adm_file, csv_file, wet_file, phase, loads,
          load_raised, merged_df, df_wetlands, registered, ran, req, exc,
          escaped, out, failed_before>>

-----------------------------------------------------------------------------
(* Bounds *)

MaxNameLen == 4
MaxAdm == 2
MaxCsvJoin == 1
MaxCsv == 3

-----------------------------------------------------------------------------
(* Text *)

Space == " "
Tab == "\t"
Newline == "\n"

Whitespace == {Space, Tab, Newline}

NullName == [null |-> TRUE, text |-> <<>>]

Txt(s) == [null |-> FALSE, text |-> s]

\* pd.isna(name)
isna(n) == n.null

\* str.lower, one character
LowerChar(c) ==
    CASE c = "A" -> "a"
      [] c = "B" -> "b"
      [] c = "K" -> "k"
      [] OTHER -> c

\* str.lower
lower(s) == [i \in 1..Len(s) |-> LowerChar(s[i])]

RECURSIVE lstrip(_)
lstrip(s) ==
    IF s = <<>> THEN <<>>
    ELSE IF Head(s) \in Whitespace THEN lstrip(Tail(s)) ELSE s

RECURSIVE rstrip(_)
rstrip(s) ==
    IF s = <<>> THEN <<>>
    ELSE IF s[Len(s)] \in Whitespace THEN rstrip(SubSeq(s, 1, Len(s) - 1)) ELSE s

\* str.strip() with no argument: removes leading and trailing whitespace
strip(s) == rstrip(lstrip(s))

\* s.split(sep)[0]: the text before the first occurrence of sep
RECURSIVE SplitFirst(_, _)
SplitFirst(s, sep) ==
    IF s = <<>> THEN <<>>
    ELSE IF Head(s) = sep THEN <<>>
    ELSE <<Head(s)>> \o SplitFirst(Tail(s), sep)

clean_name(n) ==
    IF isna(n) THEN <<>>
    ELSE lower(SplitFirst(strip(n.text), Space))

\* Code point order of the characters used, as Python compares str
Ord(c) ==
    CASE c = Tab -> 9
      [] c = Newline -> 10
      [] c = Space -> 32
      [] c = "A" -> 65
      [] c = "B" -> 66
      [] c = "K" -> 75
      [] c = "a" -> 97
      [] c = "b" -> 98
      [] c = "i" -> 105
      [] c = "k" -> 107
      [] OTHER -> 120

RECURSIVE StrLess(_, _)
StrLess(s, t) ==
    IF t = <<>> THEN FALSE
    ELSE IF s = <<>> THEN TRUE
    ELSE IF Ord(Head(s)) # Ord(Head(t)) THEN Ord(Head(s)) < Ord(Head(t))
    ELSE StrLess(Tail(s), Tail(t))

-----------------------------------------------------------------------------
(* Normaliser runs: clean_name applied to every short text *)

NormAlphabet == {"K", "i", Space, Tab, Newline}

RECURSIVE TextsUpTo(_, _)
TextsUpTo(alphabet, n) ==
    IF n = 0 THEN {<<>>}
    ELSE LET shorter == TextsUpTo(alphabet, n - 1)
         IN  shorter \cup {<<c>> \o s : c \in alphabet, s \in {t \in shorter : Len(t) = n - 1}}

NormInputs == {NullName} \cup {Txt(s) : s \in TextsUpTo(NormAlphabet, MaxNameLen)}

-----------------------------------------------------------------------------
(* Cells, rows, tables *)

NoCount == [null |-> TRUE, v |-> 0]

Cnt(n) == [null |-> FALSE, v |-> n]

\* A Date cell: text pd.to_datetime parses to (y, m), or text it rejects
BadDate == [ok |-> FALSE, y |-> 0, m |-> 0]

Ym(y, m) == [ok |-> TRUE, y |-> y, m |-> m]

NullGeom == "null"

\* A source: absent / unreadable, or the rows the reader returns
Missing == [missing |-> TRUE, rows |-> <<>>]

File(rows) == [missing |-> FALSE, rows |-> rows]

\* A module-level table: None, or a frame of rows
None == [none |-> TRUE, rows |-> <<>>]

Frame(rows) == [none |-> FALSE, rows |-> rows]

RECURSIVE SeqsUpTo(_, _)
SeqsUpTo(S, n) ==
    IF n = 0 THEN {<<>>}
    ELSE LET shorter == SeqsUpTo(S, n - 1)
         IN  shorter \cup {<<x>> \o s : x \in S, s \in {t \in shorter : Len(t) = n - 1}}

RECURSIVE Concat(_)
Concat(ss) == IF ss = <<>> THEN <<>> ELSE Head(ss) \o Concat(Tail(ss))

Map(f(_), s) == [i \in 1..Len(s) |-> f(s[i])]

-----------------------------------------------------------------------------
(* load_data *)

\* df_malaria[['ADM2_EN', 'ADM3_EN', 'geometry']] with Cleaned_ADM3_EN added,
\* ADM2_EN renamed District and ADM3_EN renamed Sector
RenamedRow(a) ==
    [District |-> a.ADM2_EN, Sector |-> a.ADM3_EN, geometry |-> a.geometry,
     Cleaned_ADM3_EN |-> clean_name(a.ADM3_EN)]

\* df2 with Cleaned_Facility added
CleanedCsvRow(c) ==
    [facility_name |-> c.facility_name, Date |-> c.Date,
     Malaria_cases_OPD |-> c.Malaria_cases_OPD,
     Cleaned_Facility |-> clean_name(c.facility_name)]

\* the merge condition: left_on = right_on
KeysMatch(l, r) == l.Cleaned_ADM3_EN = r.Cleaned_Facility

MergedRow(l, r) ==
    [District |-> l.District, Sector |-> l.Sector, geometry |-> l.geometry,
     Cleaned_ADM3_EN |-> l.Cleaned_ADM3_EN,
     facility_name |-> r.facility_name, Date |-> r.Date,
     Malaria_cases_OPD |-> r.Malaria_cases_OPD,
     Cleaned_Facility |-> r.Cleaned_Facility]

\* Variant: a many-to-one join, each key joined through its first left row only
merge_first_key(left, right) ==
    LET MatchesOf(i) ==
            LET hit(r) == KeysMatch(left[i], r)
                pair(r) == MergedRow(left[i], r)
                first == \A k \in 1..(i - 1) :
                            left[k].Cleaned_ADM3_EN # left[i].Cleaned_ADM3_EN
            IN  IF first THEN Map(pair, SelectSeq(right, hit)) ELSE <<>>
    IN  Concat([i \in 1..Len(left) |-> MatchesOf(i)])

\* pd.merge(left, right, left_on, right_on, how='inner'): for each left row
\* in order, its matching right rows in order
merge(left, right) ==
    LET MatchesOf(l) ==
            LET hit(r) == KeysMatch(l, r)
                pair(r) == MergedRow(l, r)
            IN  Map(pair, SelectSeq(right, hit))
    IN  Concat(Map(MatchesOf, left))

\* pd.to_datetime(merged_df['Date']) raises when a cell does not parse
DatesParse(rows) == \A i \in 1..Len(rows) : rows[i].Date.ok

\* merged_df['Year'], merged_df['Month']
WithYearMonth(r) ==
    [District |-> r.District, Sector |-> r.Sector, geometry |-> r.geometry,
     Cleaned_ADM3_EN |-> r.Cleaned_ADM3_EN,
     facility_name |-> r.facility_name,
     Malaria_cases_OPD |-> r.Malaria_cases_OPD,
     Cleaned_Facility |-> r.Cleaned_Facility,
     Year |-> r.Date.y, Month |-> r.Date.m]

\* df_wetlands[df_wetlands.geometry.notna()] with Area_km2 = Area_1
PreparedWetlands(rows) ==
    LET has(w) == w.geometry # NullGeom
        prep(w) == [Nom |-> w.Nom, Area_1 |-> w.Area_1, geometry |-> w.geometry,
                    Area_km2 |-> w.Area_1]
    IN  Map(prep, SelectSeq(rows, has))

\* The joined rows the try body has built when it reaches the date step
JoinedRows(adm, csv) ==
    merge(Map(RenamedRow, adm.rows), Map(CleanedCsvRow, csv.rows))

\* TRUE when some statement of the try body raises
LoadRaises(adm, csv, wet) ==
    \/ adm.missing
    \/ csv.missing
    \/ ~DatesParse(JoinedRows(adm, csv))
    \/ wet.missing

\* load_data(): <<merged_df, df_wetlands>>, or <<None, None>> from the
\* except branch
load_data(adm, csv, wet) ==
    IF LoadRaises(adm, csv, wet) THEN <<None, None>>
    ELSE <<Frame(Map(WithYearMonth, JoinedRows(adm, csv))),
           Frame(PreparedWetlands(wet.rows))>>

-----------------------------------------------------------------------------
(* Module level: one load, then the dashboard layout or the error layout *)

\* Variant: the dashboard branch taken without the None test
DataAvailableUnchecked(m, w) == TRUE

\* if merged_df is not None and df_wetlands is not None
DataAvailable(m, w) == ~m.none /\ ~w.none

\* merged_df['District'].unique()[0] in the dropdown: IndexError on an
\* empty table, raised outside any try while the module is imported
LayoutRaises(m) == m.rows = <<>>

-----------------------------------------------------------------------------
(* update_dashboard: numbers *)

Num(n, d) == [k |-> "num", n |-> n, d |-> d]

Zero == Num(0, 1)

Inf == [k |-> "inf", n |-> 0, d |-> 0]

NaN == [k |-> "nan", n |-> 0, d |-> 0]

\* numpy true division of integers x / y, kept exact
Divide(x, y) ==
    IF y # 0 THEN Num(x, y)
    ELSE IF x = 0 THEN NaN ELSE Inf

\* round(x, 2) of n / d with n >= 0 and d > 0, in hundredths, ties to even
RoundHundredths(n, d) ==
    LET q == (n * 100) \div d
        twice == 2 * ((n * 100) % d)
    IN  IF twice > d THEN q + 1
        ELSE IF twice = d THEN q + (q % 2)
        ELSE q

RECURSIVE SumSeq(_)
SumSeq(s) == IF s = <<>> THEN 0 ELSE Head(s) + SumSeq(Tail(s))

RECURSIVE MaxSeq(_)
MaxSeq(s) ==
    IF Len(s) = 1 THEN Head(s)
    ELSE LET rest == MaxSeq(Tail(s))
         IN  IF Head(s) > rest THEN Head(s) ELSE rest

\* The non-null Malaria_cases_OPD cells of rows (pandas skips NaN)
Counts(rows) ==
    LET has(r) == ~r.Malaria_cases_OPD.null
        val(r) == r.Malaria_cases_OPD.v
    IN  Map(val, SelectSeq(rows, has))

-----------------------------------------------------------------------------
(* update_dashboard: filter and aggregate *)

NoRange == [none |-> TRUE, lo |-> 0, hi |-> 0]

Range(lo, hi) == [none |-> FALSE, lo |-> lo, hi |-> hi]

\* Variant: the upper bound of the year range taken as exclusive
InYearRangeExclusive(y, r) == y >= r.lo /\ y < r.hi

\* (Year >= year_range[0]) & (Year <= year_range[1])
InYearRange(y, r) == y >= r.lo /\ y <= r.hi

\* Variant: the mask without the district test
SelectedAnyDistrict(row, d, r) == InYearRange(row.Year, r)

\* the mask of one row
Selected(row, d, r) == row.District = d /\ InYearRange(row.Year, r)

\* district_data = merged_df.loc[mask]
DistrictData(rows, d, r) ==
    LET keep(row) == Selected(row, d, r)
    IN  SelectSeq(rows, keep)

\* rows of data with this facility_name
FacilityData(data, f) ==
    LET same(row) == row.facility_name = f
    IN  SelectSeq(data, same)

\* Group keys in sorted order; groupby drops the null key
RECURSIVE SortNames(_)
SortNames(S) ==
    IF S = {} THEN <<>>
    ELSE LET first == CHOOSE x \in S : \A y \in S \ {x} : StrLess(x.text, y.text)
         IN  <<first>> \o SortNames(S \ {first})

FacilityKeys(data) ==
    SortNames({data[i].facility_name : i \in 1..Len(data)} \ {NullName})

\* One row of agg_data after round(2)
AggRow(data, f) ==
    LET c == Counts(FacilityData(data, f))
    IN  [facility_name |-> f,
         Total |-> SumSeq(c),
         Average |-> IF c = <<>> THEN NaN
                     ELSE Num(RoundHundredths(SumSeq(c), Len(c)), 100),
         Maximum |-> IF c = <<>> THEN NaN ELSE Num(MaxSeq(c), 1)]

\* agg_data = groupby('facility_name').agg(sum, mean, max).round(2)
AggData(data) ==
    LET row(f) == AggRow(data, f)
    IN  Map(row, FacilityKeys(data))

-----------------------------------------------------------------------------
(* update_dashboard: monthly series and growth *)

YmLess(a, b) == a[1] < b[1] \/ (a[1] = b[1] /\ a[2] < b[2])

RECURSIVE SortYm(_)
SortYm(S) ==
    IF S = {} THEN <<>>
    ELSE LET first == CHOOSE x \in S : \A y \in S \ {x} : YmLess(x, y)
         IN  <<first>> \o SortYm(S \ {first})

\* (Year, Month) keys in order of first appearance
RECURSIVE KeysAsMet(_, _)
KeysAsMet(data, seen) ==
    IF data = <<>> THEN <<>>
    ELSE LET ym == <<Head(data).Year, Head(data).Month>>
         IN  IF ym \in seen THEN KeysAsMet(Tail(data), seen)
             ELSE <<ym>> \o KeysAsMet(Tail(data), seen \cup {ym})

\* Variant: groupby(..., sort=False), buckets in order of first appearance
MonthlyUnsorted(data) ==
    LET bucket(ym) ==
            LET in(row) == row.Year = ym[1] /\ row.Month = ym[2]
            IN  [Year |-> ym[1], Month |-> ym[2],
                 Malaria_cases_OPD |-> SumSeq(Counts(SelectSeq(data, in)))]
    IN  Map(bucket, KeysAsMet(data, {}))

\* groupby(['Year', 'Month'])['Malaria_cases_OPD'].sum().reset_index():
\* one row per (Year, Month) present, in sorted key order
Monthly(data) ==
    LET keys == SortYm({<<data[i].Year, data[i].Month>> : i \in 1..Len(data)})
        bucket(ym) ==
            LET in(row) == row.Year = ym[1] /\ row.Month = ym[2]
            IN  [Year |-> ym[1], Month |-> ym[2],
                 Malaria_cases_OPD |-> SumSeq(Counts(SelectSeq(data, in)))]
    IN  Map(bucket, keys)

\* mom_growth of one facility's monthly series
MomGrowth(monthly) ==
    IF Len(monthly) > 1
    THEN LET last_month == monthly[Len(monthly)].Malaria_cases_OPD
             prev_month == monthly[Len(monthly) - 1].Malaria_cases_OPD
         IN  IF prev_month # 0
             THEN Divide((last_month - prev_month) * 100, prev_month)
             ELSE Zero
    ELSE Zero

\* mom_growth >= 0
NonNegative(g) == g.k = "num" /\ ((g.n >= 0 /\ g.d > 0) \/ (g.n <= 0 /\ g.d < 0))

\* Variant: period growth with the zero guard of mom_growth
PeriodGrowthGuarded(monthly) ==
    IF Len(monthly) >= 2
    THEN LET first == monthly[1].Malaria_cases_OPD
             last == monthly[Len(monthly)].Malaria_cases_OPD
         IN  IF first # 0 THEN Divide((last - first) * 100, first) ELSE Zero
    ELSE Zero

\* growth_rate of the district's monthly series
PeriodGrowth(monthly) ==
    IF Len(monthly) >= 2
    THEN LET first == monthly[1].Malaria_cases_OPD
             last == monthly[Len(monthly)].Malaria_cases_OPD
         IN  Divide((last - first) * 100, first)
    ELSE Zero

\* monthly_data['Malaria_cases_OPD'].mean()
MonthlyMean(monthly) ==
    LET v(b) == b.Malaria_cases_OPD
    IN  IF monthly = <<>> THEN NaN ELSE Num(SumSeq(Map(v, monthly)), Len(monthly))

-----------------------------------------------------------------------------
(* update_dashboard: the try body, its exceptions and the except branch *)

Columns == <<"facility_name", "Total Cases", "Average Cases", "Maximum Cases">>

EmptyFigure == [kind |-> "empty", data |-> <<>>, annotations |-> <<>>]

\* return [], [], {'type': 'FeatureCollection', 'features': []}, [], {}, {}, []
EmptyResult ==
    [rows |-> <<>>, columns |-> <<>>,
     geojson |-> [type |-> "FeatureCollection", nested |-> FALSE, features |-> <<>>],
     markers |-> <<>>, bar |-> EmptyFigure, trend |-> EmptyFigure,
     summary |-> <<>>]

\* 'features': json.loads(district_data.geometry.to_json()): the value is
\* itself a feature collection, holding one feature per filtered row
GeoJson(data) ==
    LET geom(row) == row.geometry
    IN  [type |-> "FeatureCollection", nested |-> TRUE, features |-> Map(geom, data)]

\* One popup per agg_data row: position is the centroid of the geometry of
\* the facility's first filtered row
Markers(data, agg) ==
    LET marker(row) ==
            LET facility_data == FacilityData(data, row.facility_name)
                mom_growth == MomGrowth(Monthly(facility_data))
            IN  [facility_name |-> row.facility_name,
                 position |-> facility_data[1].geometry,
                 growth |-> mom_growth,
                 increasing |-> NonNegative(mom_growth)]
    IN  Map(marker, agg)

\* facility_data.iloc[0].geometry.centroid on a null geometry
CentroidRaises(data, agg) ==
    \E i \in 1..Len(agg) :
        FacilityData(data, agg[i].facility_name)[1].geometry = NullGeom

\* px.bar of agg_data, with one arrow per facility that has more than one
\* monthly bucket
BarFigure(data, agg) ==
    LET bar(row) == [x |-> row.facility_name, y |-> row.Total]
        many(row) == Len(Monthly(FacilityData(data, row.facility_name))) > 1
        arrow(row) ==
            [x |-> row.facility_name, y |-> row.Total,
             up |-> NonNegative(MomGrowth(Monthly(FacilityData(data, row.facility_name))))]
    IN  [kind |-> "figure", data |-> Map(bar, agg),
         annotations |-> Map(arrow, SelectSeq(agg, many))]

TrendFigure(monthly) == [kind |-> "figure", data |-> monthly, annotations |-> <<>>]

\* The three cards; value is the number the card's f-string renders
SummaryStats(data) ==
    LET monthly_data == Monthly(data)
    IN  <<[label |-> "Total Cases", value |-> Num(SumSeq(Counts(data)), 1)],
          [label |-> "Monthly Average", value |-> MonthlyMean(monthly_data)],
          [label |-> "Period Growth", value |-> PeriodGrowth(monthly_data)]>>

\* What the try body returns when no statement raises
Body(rows, d, r) ==
    LET district_data == DistrictData(rows, d, r)
        agg_data == AggData(district_data)
    IN  [rows |-> agg_data, columns |-> Columns,
         geojson |-> GeoJson(district_data),
         markers |-> Markers(district_data, agg_data),
         bar |-> BarFigure(district_data, agg_data),
         trend |-> TrendFigure(Monthly(district_data)),
         summary |-> SummaryStats(district_data)]

\* The first statement of the try body, the marker loop and the last
\* statement; a collaborator (pandas, plotly, geopandas) may raise at each
Steps == <<"filter", "markers", "summary">>

NoFault == "none"

Faults == {NoFault} \cup {Steps[i] : i \in 1..Len(Steps)}

StepNo(step) == CHOOSE i \in 1..Len(Steps) : Steps[i] = step

NoExc == "none"

\* The exception the try body raises first, or NoExc
Raised(rows, d, r, fault) ==
    IF r.none THEN "TypeError"
    ELSE IF fault # NoFault /\ StepNo(fault) < StepNo("markers") THEN "Exception"
    ELSE IF CentroidRaises(DistrictData(rows, d, r), AggData(DistrictData(rows, d, r)))
         THEN "AttributeError"
    ELSE IF fault # NoFault THEN "Exception"
    ELSE NoExc

\* Variant: the try body without its except clause
TryNoExcept(e, value) ==
    IF e # NoExc THEN [escaped |-> TRUE, value |-> EmptyResult]
    ELSE [escaped |-> FALSE, value |-> value]

\* try: ... except Exception as e: return the empty result
TryExcept(e, value) ==
    IF e # NoExc THEN [escaped |-> FALSE, value |-> EmptyResult]
    ELSE [escaped |-> FALSE, value |-> value]

\* Variant: the filter assigned back to the module-level table
HeldAfterFiltered(m, d, r) == Frame(DistrictData(m.rows, d, r))

\* The module-level merged_df after one call: the body works on
\* merged_df.loc[mask].copy() and assigns nothing to merged_df
HeldAfter(m, d, r) == m

\* One call: the exception met inside (exc), whether it left the call
\* (escaped) and the value returned
update_dashboard(rows, d, r, fault) ==
    LET e == Raised(rows, d, r, fault)
        res == TryExcept(e, Body(rows, d, r))
    IN  [exc |-> e, escaped |-> res.escaped, value |-> res.value]

-----------------------------------------------------------------------------
(* Contents of the three sources *)

NameA == Txt(<<"A">>)
NameAx == Txt(<<"a", Space, "x">>)
NameB == Txt(<<"B">>)
NameK == Txt(<<"K">>)

Wetland(g) == [Nom |-> "W", Area_1 |-> 3, geometry |-> g]

GoodWet == File(<<Wetland("w1")>>)

AdmRow(d, n, g) == [ADM2_EN |-> d, ADM3_EN |-> n, geometry |-> g]

CsvRow(f, date, c) == [facility_name |-> f, Date |-> date, Malaria_cases_OPD |-> c]

\* Sources present or absent
FileCases ==
    [adm : {Missing, File(<<AdmRow("East", NameA, "g1")>>)},
     csv : {Missing, File(<<CsvRow(NameA, Ym(2020, 12), Cnt(1))>>)},
     wet : {Missing, GoodWet, File(<<Wetland("w1"), Wetland(NullGeom)>>)}]

\* Names that are null, share a first token, or have no counterpart; dates
\* that parse or not
KeyAdmRows == {AdmRow("East", n, "g1") : n \in {NullName, NameAx, NameB}}

KeyCsvRows ==
    {CsvRow(f, date, Cnt(1)) : f \in {NullName, NameA, NameK},
                               date \in {Ym(2020, 12), BadDate}}

KeyCases ==
    [adm : {File(t) : t \in SeqsUpTo(KeyAdmRows, MaxAdm)},
     csv : {File(t) : t \in SeqsUpTo(KeyCsvRows, MaxCsvJoin)},
     wet : {GoodWet}]

\* Null geometries and null counts on rows that join
CellAdmRows == {AdmRow("East", NameA, g) : g \in {"g1", NullGeom}}

CellCsvRows ==
    {CsvRow(NameA, Ym(y, 1), c) : y \in {2020, 2021}, c \in {NoCount, Cnt(1)}}

CellCases ==
    [adm : {File(t) : t \in SeqsUpTo(CellAdmRows, MaxAdm)},
     csv : {File(t) : t \in SeqsUpTo(CellCsvRows, MaxCsvJoin)},
     wet : {GoodWet}]

SeriesCsvRows(names, months) ==
    {CsvRow(f, date, Cnt(c)) : f \in names, date \in months, c \in {0, 1}}

\* Case reports of two facilities over two months of two years, in every
\* order, each facility with one region
SeriesCases ==
    [adm : {File(<<AdmRow("East", NameA, "g1"), AdmRow("East", NameB, "g2")>>)},
     csv : {File(t) : t \in SeqsUpTo(SeriesCsvRows({NameA, NameB},
                                                    {Ym(2020, 12), Ym(2021, 1)}),
                                     MaxCsv)},
     wet : {GoodWet}]

\* Case reports of one facility over three months, in every order; its key
\* matches two regions of one district and one region of another
SharedKeyCases ==
    [adm : {File(<<AdmRow("East", NameAx, "g1"), AdmRow("East", NameA, "g2"),
                   AdmRow("West", NameA, "g3")>>)},
     csv : {File(t) : t \in SeqsUpTo(SeriesCsvRows({NameA},
                                                    {Ym(2020, 12), Ym(2021, 1), Ym(2021, 2)}),
                                     MaxCsv)},
     wet : {GoodWet}]

Inputs == FileCases \cup KeyCases \cup CellCases \cup SeriesCases \cup SharedKeyCases

\* What a browser can send to the callback
Districts == {"East", "West"}

Years == {2020, 2021}

YearRanges == {NoRange} \cup {Range(lo, hi) : lo \in Years, hi \in Years}

NoReq == [district |-> "", year_range |-> NoRange]

-----------------------------------------------------------------------------
(* The state machine *)

Idle ==
    /\ phase = "import"
    /\ loads = 0
    /\ load_raised = FALSE
    /\ merged_df = None
    /\ df_wetlands = None
    /\ registered = FALSE
    /\ ran = FALSE
    /\ req = NoReq
    /\ exc = NoExc
    /\ escaped = FALSE
    /\ out = EmptyResult
    /\ failed_before = FALSE

Init ==
    /\ \E in \in Inputs :
          /\ adm_file = in.adm
          /\ csv_file = in.csv
          /\ wet_file = in.wet
    /\ name = NullName
    /\ key = <<>>
    /\ cleaned = FALSE
    /\ Idle

normVars == <<name, key, cleaned>>
fileVars == <<adm_file, csv_file, wet_file>>
loadVars == <<loads, load_raised, merged_df, df_wetlands>>
callVars == <<ran, req, exc, escaped, out, failed_before>>

\* df_malaria, df_wetlands = load_data(); merged_df = df_malaria
Load ==
    /\ phase = "import"
    /\ LET pair == load_data(adm_file, csv_file, wet_file)
       IN  /\ merged_df' = pair[1]
           /\ df_wetlands' = pair[2]
    /\ load_raised' = LoadRaises(adm_file, csv_file, wet_file)
    /\ loads' = loads + 1
    /\ phase' = "loaded"
    /\ UNCHANGED <<normVars, fileVars, registered, callVars>>

\* The if branch: the dashboard layout is built and update_dashboard registered
BuildDashboard ==
    /\ phase = "loaded"
    /\ DataAvailable(merged_df, df_wetlands)
    /\ ~LayoutRaises(merged_df)
    /\ phase' = "serving"
    /\ registered' = TRUE
    /\ UNCHANGED <<normVars, fileVars, loadVars, callVars>>

\* The if branch on an empty table: the import dies with IndexError
LayoutCrash ==
    /\ phase = "loaded"
    /\ DataAvailable(merged_df, df_wetlands)
    /\ LayoutRaises(merged_df)
    /\ phase' = "crashed"
    /\ UNCHANGED <<normVars, fileVars, loadVars, registered, callVars>>

\* The else branch: the static error layout, no callback
BuildErrorLayout ==
    /\ phase = "loaded"
    /\ ~DataAvailable(merged_df, df_wetlands)
    /\ phase' = "error_view"
    /\ UNCHANGED <<normVars, fileVars, loadVars, registered, callVars>>

\* A request that reaches the registered callback: update_dashboard runs
\* to completion
UpdateDashboard ==
    /\ phase \in {"serving", "error_view"}
    /\ registered
    /\ \E d \in Districts, r \in YearRanges, fault \in Faults :
          LET res == update_dashboard(merged_df.rows, d, r, fault)
          IN  /\ req' = [district |-> d, year_range |-> r]
              /\ exc' = res.exc
              /\ escaped' = res.escaped
              /\ out' = res.value
              /\ merged_df' = HeldAfter(merged_df, d, r)
    /\ ran' = TRUE
    /\ phase' = "responding"
    /\ UNCHANGED <<normVars, fileVars, loads, load_raised, df_wetlands,
                   registered, failed_before>>

\* The returned value is rendered and dropped; the next request may start
Respond ==
    /\ phase = "responding"
    /\ phase' = "serving"
    /\ failed_before' = (failed_before \/ exc # NoExc)
    /\ req' = NoReq
    /\ exc' = NoExc
    /\ out' = EmptyResult
    /\ UNCHANGED <<normVars, fileVars, loadVars, registered, ran, escaped>>

\* A request while no callback is registered: nothing is computed
Unhandled ==
    /\ phase \in {"serving", "error_view"}
    /\ ~registered
    /\ \E d \in Districts, r \in YearRanges :
          req' = [district |-> d, year_range |-> r]
    /\ UNCHANGED <<normVars, fileVars, loadVars, phase, registered,
                   ran, exc, escaped, out, failed_before>>

Next ==
    \/ Load
    \/ BuildDashboard
    \/ LayoutCrash
    \/ BuildErrorLayout
    \/ UpdateDashboard
    \/ Respond
    \/ Unhandled

Spec == Init /\ [][Next]_vars

-----------------------------------------------------------------------------
(* Normaliser runs *)

InitNorm ==
    /\ name \in NormInputs
    /\ key = <<>>
    /\ cleaned = FALSE
    /\ adm_file = Missing
    /\ csv_file = Missing
    /\ wet_file = Missing
    /\ Idle

CleanName ==
    /\ ~cleaned
    /\ key' = clean_name(name)
    /\ cleaned' = TRUE
    /\ UNCHANGED <<name, fileVars, loadVars, phase, registered, callVars>>

NextNorm == CleanName

SpecNorm == InitNorm /\ [][NextNorm]_vars

-----------------------------------------------------------------------------
(* Reference definitions for the properties: the joined table read as a    *)
(* set of row numbers                                                      *)

Held == merged_df.rows

Responded == phase = "responding"

Completed == Responded /\ exc = NoExc

\* Rows with District = d and lo <= Year <= hi
Hits(d, r) ==
    {i \in 1..Len(Held) :
        Held[i].District = d /\ r.lo <= Held[i].Year /\ Held[i].Year <= r.hi}

HitsOf(f, d, r) == {i \in Hits(d, r) : Held[i].facility_name = f}

Counted(S) == {i \in S : ~Held[i].Malaria_cases_OPD.null}

RECURSIVE TotalOver(_)
TotalOver(S) ==
    IF S = {} THEN 0
    ELSE LET i == CHOOSE j \in S : TRUE
         IN  (IF Held[i].Malaria_cases_OPD.null THEN 0 ELSE Held[i].Malaria_cases_OPD.v)
             + TotalOver(S \ {i})

BucketsOf(S) == {<<Held[i].Year, Held[i].Month>> : i \in S}

InBucket(S, b) == {i \in S : <<Held[i].Year, Held[i].Month>> = b}

Latest(B) == CHOOSE b \in B : \A c \in B \ {b} : YmLess(c, b)

Earliest(B) == CHOOSE b \in B : \A c \in B \ {b} : YmLess(b, c)

-----------------------------------------------------------------------------
(* C1 *)

JoinIsEmpty == JoinedRows(adm_file, csv_file) = <<>>

FailureCondition ==
    \/ adm_file.missing
    \/ csv_file.missing
    \/ wet_file.missing
    \/ ~DatesParse(JoinedRows(adm_file, csv_file))
    \/ JoinIsEmpty

\* C1: load_data returns both tables or the pair (None, None), never one
\* table with one None, and every failure condition (a missing source, a
\* joined record whose date does not parse, an empty join) gives (None, None).
C1_LoadAllOrNothing ==
    phase # "import" =>
        /\ merged_df.none <=> df_wetlands.none
        /\ FailureCondition => (merged_df.none /\ df_wetlands.none)

-----------------------------------------------------------------------------
(* C2 *)

LoadFailed == phase # "import" /\ (merged_df.none \/ df_wetlands.none)

\* C2: load_data is called once; after a failed load the process shows the
\* error layout for good: update_dashboard is never registered and never
\* runs, and no step leaves the error view or replaces the held tables.
C2_FailedLoadStaysInert ==
    /\ [](loads <= 1 /\ (phase # "import" => loads = 1))
    /\ [](LoadFailed /\ phase # "loaded" =>
            phase = "error_view" /\ ~registered /\ ~ran /\ out = EmptyResult)
    /\ [][LoadFailed => LoadFailed' /\ loads' = loads /\ ~registered' /\ ~ran']_vars

\* A request has arrived after a failed load, and nothing was computed
C2_Witness ==
    /\ phase = "error_view"
    /\ load_raised
    /\ merged_df.none
    /\ req # NoReq
    /\ ~ran

-----------------------------------------------------------------------------
(* C3 *)

\* C3: an exception raised in update_dashboard is caught there: the call
\* returns the empty result and nothing escapes; a call that raises nothing,
\* also after earlier calls that raised, returns the computed view.
C3_ExceptionsDegradeToEmpty ==
    /\ ~escaped
    /\ Responded /\ exc # NoExc => out = EmptyResult
    /\ Completed =>
          /\ out.columns = Columns
          /\ Len(out.summary) = 3
          /\ out.geojson.nested
          /\ Len(out.geojson.features) = Cardinality(Hits(req.district, req.year_range))

\* After a call that raised, a call is served with rows
C3_Witness ==
    /\ failed_before
    /\ Completed
    /\ out.rows # <<>>
    /\ ~escaped

-----------------------------------------------------------------------------
(* C4 *)

FacilitiesHit(d, r) == {Held[i].facility_name : i \in Hits(d, r)} \ {NullName}

RowOf(f) == CHOOSE k \in 1..Len(out.rows) : out.rows[k].facility_name = f

\* One row per facility that has a filtered record, with the sum and the
\* maximum of the counts of exactly its filtered records
RowsSumMax(d, r) ==
    /\ Len(out.rows) = Cardinality(FacilitiesHit(d, r))
    /\ {out.rows[k].facility_name : k \in 1..Len(out.rows)} = FacilitiesHit(d, r)
    /\ \A f \in FacilitiesHit(d, r) :
          LET row == out.rows[RowOf(f)]
              S == Counted(HitsOf(f, d, r))
          IN  /\ row.Total = TotalOver(S)
              /\ IF S = {} THEN row.Maximum.k = "nan" /\ row.Average.k = "nan"
                 ELSE /\ row.Maximum.k = "num"
                      /\ row.Average.k = "num"
                      /\ row.Average.d > 0
                      /\ \E i \in S : row.Maximum.n = Held[i].Malaria_cases_OPD.v * row.Maximum.d
                      /\ \A i \in S : row.Maximum.n >= Held[i].Malaria_cases_OPD.v * row.Maximum.d

-----------------------------------------------------------------------------
(* C5 *)

\* C5: when no joined record has the requested district and a year in the
\* requested range (an unknown district, or lo > hi), update_dashboard
\* raises nothing of its own and returns no rows, no features, no markers,
\* a total of 0, an undefined (NaN) monthly average and a growth of 0.
C5_NoMatchIsNormal ==
    (/\ Responded
     /\ ~req.year_range.none
     /\ exc # "Exception"
     /\ Hits(req.district, req.year_range) = {})
    => /\ exc = NoExc
       /\ out.rows = <<>>
       /\ out.geojson.features = <<>>
       /\ out.markers = <<>>
       /\ Len(out.summary) = 3
       /\ out.summary[1].value = Zero
       /\ out.summary[2].value.k = "nan"
       /\ out.summary[3].value = Zero

\* A district absent from a non-empty table is requested over all years
C5_Witness ==
    /\ Completed
    /\ Held # <<>>
    /\ \A i \in 1..Len(Held) : Held[i].District # req.district
    /\ req.year_range = Range(2020, 2021)
    /\ out.rows = <<>>
    /\ Len(out.summary) = 3

-----------------------------------------------------------------------------
(* C6 *)

\* The growth the two most recent monthly totals of the row set S call for
ExpectedMom(g, S) ==
    LET B == BucketsOf(S)
    IN  IF Cardinality(B) < 2 THEN g = Zero
        ELSE LET last == Latest(B)
                 prev == Latest(B \ {last})
                 sl == TotalOver(InBucket(S, last))
                 sp == TotalOver(InBucket(S, prev))
             IN  IF sp = 0 THEN g = Zero
                 ELSE g.n * sp = (sl - sp) * 100 * g.d

\* C6: each marker's growth is 0 for a facility with fewer than two monthly
\* buckets, 0 when the second most recent monthly total is 0, and otherwise
\* (last - previous) / previous * 100 over the two chronologically most
\* recent buckets, whatever the order of the records; it is always a finite
\* number, and the bar chart's arrow shows its sign.
C6_MomGrowthGuarded ==
    Completed =>
        /\ Len(out.markers) = Len(out.rows)
        /\ \A k \in 1..Len(out.markers) :
              LET mk == out.markers[k]
                  S == HitsOf(mk.facility_name, req.district, req.year_range)
              IN  /\ mk.facility_name = out.rows[k].facility_name
                  /\ mk.growth.k = "num"
                  /\ mk.growth.d # 0
                  /\ ExpectedMom(mk.growth, S)
                  /\ \A a \in 1..Len(out.bar.annotations) :
                        out.bar.annotations[a].x = mk.facility_name =>
                            /\ Cardinality(BucketsOf(S)) > 1
                            /\ out.bar.annotations[a].up = mk.increasing

\* A facility whose records arrive latest month first has a non-zero growth
C6_Witness ==
    /\ Completed
    /\ \E k \in 1..Len(out.markers) :
          /\ out.markers[k].growth.n # 0
          /\ \E i, j \in HitsOf(out.markers[k].facility_name, req.district, req.year_range) :
                /\ i < j
                /\ YmLess(<<Held[j].Year, Held[j].Month>>, <<Held[i].Year, Held[i].Month>>)
                /\ \A h \in HitsOf(out.markers[k].facility_name, req.district, req.year_range) :
                      ~YmLess(<<Held[i].Year, Held[i].Month>>, <<Held[h].Year, Held[h].Month>>)

-----------------------------------------------------------------------------
(* C7 *)

\* C7: the summary's period growth is 0 when the district's monthly series
\* has fewer than two points; otherwise it is (last - first) / first * 100
\* with first and last in (year, month) order, and a first value of 0 is not
\* guarded: the result is then infinite or NaN, not a finite number.
C7_PeriodGrowthUnguarded ==
    Completed =>
        LET S == Hits(req.district, req.year_range)
            B == BucketsOf(S)
            g == out.summary[3].value
        IN  IF Cardinality(B) < 2 THEN g = Zero
            ELSE LET sf == TotalOver(InBucket(S, Earliest(B)))
                     sl == TotalOver(InBucket(S, Latest(B)))
                 IN  IF sf = 0 THEN g.k \in {"inf", "nan"}
                     ELSE /\ g.k = "num"
                          /\ g.d # 0
                          /\ g.n * sf = (sl - sf) * 100 * g.d

\* The first monthly total is 0 and a later one is not
C7_Witness ==
    /\ Completed
    /\ out.summary[3].value.k = "inf"
    /\ Len(out.trend.data) >= 2
    /\ out.trend.data[1].Malaria_cases_OPD = 0

-----------------------------------------------------------------------------
(* C8 *)

\* C8: every row of the joined table of a successful load has a non-null
\* geometry and a non-null case count, whatever the sources hold.
C8_JoinedRowsNonNull ==
    (phase # "import" /\ ~merged_df.none) =>
        \A i \in 1..Len(Held) :
            /\ Held[i].geometry # NullGeom
            /\ ~Held[i].Malaria_cases_OPD.null

-----------------------------------------------------------------------------
(* C9 *)

\* C9: every row of the joined table pairs a region and a case record with
\* equal, non-empty normalised keys; a record with a null or empty name
\* (key "") joins nothing.
C9_JoinKeysEqualNonEmpty ==
    (phase # "import" /\ ~merged_df.none) =>
        \A i \in 1..Len(Held) :
            /\ Held[i].Cleaned_ADM3_EN = Held[i].Cleaned_Facility
            /\ Held[i].Cleaned_ADM3_EN # <<>>
            /\ \E a \in 1..Len(adm_file.rows), c \in 1..Len(csv_file.rows) :
                  /\ adm_file.rows[a].ADM3_EN = Held[i].Sector
                  /\ csv_file.rows[c].facility_name = Held[i].facility_name

-----------------------------------------------------------------------------
(* C10 *)

\* The text before the first whitespace character
FirstToken(s) ==
    LET stops == {i \in 1..Len(s) : s[i] \in Whitespace}
        stop == IF stops = {} THEN Len(s) + 1
                ELSE CHOOSE i \in stops : \A j \in stops : i <= j
    IN  SubSeq(s, 1, stop - 1)

\* C10: clean_name gives "" for a null name and otherwise the lowercased
\* first token of the stripped text, the token ending at any whitespace
\* character (space, tab, newline).
C10_FirstWhitespaceToken ==
    cleaned =>
        key = IF name.null THEN <<>> ELSE lower(FirstToken(strip(name.text)))

-----------------------------------------------------------------------------
(* C11 *)

\* The two tables as load_data builds them from the sources
Loaded == load_data(adm_file, csv_file, wet_file)

\* C11: once loaded, no update_dashboard call, succeeding or failing,
\* changes the held joined table or wetland table, so what a call returns is
\* a function of its district and year range alone: the view computed from
\* the tables every call finds, or the empty result when the call raised.
C11_CallsLeaveTablesAlone ==
    /\ [][phase # "import" => merged_df' = merged_df /\ df_wetlands' = df_wetlands]_vars
    /\ [](Responded =>
            /\ exc # "Exception" =>
                  exc = Raised(Held, req.district, req.year_range, NoFault)
            /\ out = IF exc # NoExc THEN EmptyResult
                     ELSE Body(Held, req.district, req.year_range))

\* A call made after an earlier call that raised returns rows computed from
\* the tables as loaded
C11_Witness ==
    /\ Completed
    /\ failed_before
    /\ merged_df = Loaded[1]
    /\ Len(Held) > Len(out.geojson.features)
    /\ out.rows # <<>>
    /\ out = Body(Loaded[1].rows, req.district, req.year_range)

-----------------------------------------------------------------------------
(* C12 *)

\* Rows of the region source in district d whose normalized sector key is
\* the normalized key of facility name f
RegionsOf(f, d) ==
    {i \in 1..Len(adm_file.rows) :
        /\ adm_file.rows[i].ADM2_EN = d
        /\ clean_name(adm_file.rows[i].ADM3_EN) = clean_name(f)}

\* Rows of the region source, in any district, with the key of f
RegionsWithKey(f) ==
    {i \in 1..Len(adm_file.rows) :
        clean_name(adm_file.rows[i].ADM3_EN) = clean_name(f)}

\* Case reports of facility f dated within the year range
ReportsOf(f, r) ==
    {j \in 1..Len(csv_file.rows) :
        /\ csv_file.rows[j].facility_name = f
        /\ csv_file.rows[j].Date.ok
        /\ r.lo <= csv_file.rows[j].Date.y
        /\ csv_file.rows[j].Date.y <= r.hi}

\* Sum of the counts present in a set of case reports
RECURSIVE ReportedSum(_)
ReportedSum(S) ==
    IF S = {} THEN 0
    ELSE LET j == CHOOSE k \in S : TRUE
             c == csv_file.rows[j].Malaria_cases_OPD
         IN  (IF c.null THEN 0 ELSE c.v) + ReportedSum(S \ {j})

\* Copies of case report c in the case source
CopiesInSource(c) == {j \in 1..Len(csv_file.rows) : csv_file.rows[j] = c}

\* Joined rows that carry case report c
CopiesInJoin(c) ==
    {k \in 1..Len(Held) :
        /\ Held[k].facility_name = c.facility_name
        /\ Held[k].Year = c.Date.y
        /\ Held[k].Month = c.Date.m
        /\ Held[k].Malaria_cases_OPD = c.Malaria_cases_OPD}

ReportedFacilities == {out.rows[k].facility_name : k \in 1..Len(out.rows)}

\* C12: the join is many-to-many. Every case report is in the joined table
\* once for every region row whose normalized sector key equals its
\* normalized facility key; so in a completed call the facilities reported
\* for a district are those with a report in the year range and a matching
\* region row in that district, and each one's Total is the sum of its
\* in-range counts times the number of its matching region rows there.
C12_JoinIsManyToMany ==
    [](/\ phase # "import" /\ ~merged_df.none =>
             \A j \in 1..Len(csv_file.rows) :
                LET c == csv_file.rows[j]
                IN  Cardinality(CopiesInJoin(c))
                       = Cardinality(CopiesInSource(c))
                           * Cardinality(RegionsWithKey(c.facility_name))
       /\ Completed =>
             LET d == req.district
                 r == req.year_range
                 names == {csv_file.rows[j].facility_name :
                              j \in 1..Len(csv_file.rows)} \ {NullName}
             IN  /\ ReportedFacilities
                       = {f \in names : ReportsOf(f, r) # {} /\ RegionsOf(f, d) # {}}
                 /\ \A k \in 1..Len(out.rows) :
                       LET f == out.rows[k].facility_name
                       IN  out.rows[k].Total
                              = ReportedSum(ReportsOf(f, r)) * Cardinality(RegionsOf(f, d)))

\* A facility whose key matches two regions of the requested district and a
\* region of another district is reported with twice the sum of its counts
C12_Witness ==
    /\ Completed
    /\ \E k \in 1..Len(out.rows) :
          LET f == out.rows[k].facility_name
              total == ReportedSum(ReportsOf(f, req.year_range))
          IN  /\ Cardinality(RegionsOf(f, req.district)) = 2
              /\ \E e \in Districts \ {req.district} : RegionsOf(f, e) # {}
              /\ total >= 1
              /\ out.rows[k].Total = 2 * total

=============================================================================
